---- MODULE Spec2Model ----
(***************************************************************************)
(* Model of tautulli_to_letterboxd.py: the export pipeline                 *)
(*   to_csv -> json_parser -> get_length / api_handler / rating_handler    *)
(* and the pure text functions it uses (title rendering, row formatting,   *)
(* the csv writer configured with QUOTE_NONE and delimiter '\n').          *)
(* Text is modelled as sequences of one-character strings.                 *)
(***************************************************************************)
EXTENDS Integers, Sequences, FiniteSets, TLC

VARIABLES
    pc,           \* position of the single thread of control
    exitMsg,      \* which exit(...) message ended the run ("" while running)
    total_count,  \* json_parser.total_count (value returned by get_length)
    dataset,      \* json_data['response']['data']['data'] of the fetch-all call
    count,        \* json_parser.count
    movies,       \* json_parser.movies
    file,         \* characters of the output file (<<>> while untouched)
    fileOpened,   \* open(FILE_NAME, 'w') has been executed
    calls,        \* history: params of every api_handler call, in order
    replies,      \* history: what each of those calls got back, in order
    reads,        \* history: every index of the dataset the loop has read
    built,        \* history: every candidate row built (before deduplication)
    failed,       \* history: an error or interrupt has occurred
    loopReturned, \* history: json_parser has returned (movies, len(movies))
    name,         \* input of the title rendering (title specification)
    rendered      \* output of the title rendering (title specification)

vars == <<pc, exitMsg, total_count, dataset, count, movies, file, fileOpened,
          calls, replies, reads, built, failed, loopReturned, name, rendered>>

-----------------------------------------------------------------------------
(* Bounds of the model *)

MaxCount == 3
MaxLen == 2
MaxTitleLen == 3

-----------------------------------------------------------------------------
(* Characters *)

NL == "\n"
CR == "\r"
QUOTE == "\""
COMMA == ","
SP == " "

Range(s) == {s[i] : i \in 1..Len(s)}

\* str.strip() removes these from both ends
Whitespace == {SP, NL, CR, "\t"}

-----------------------------------------------------------------------------
(* Text helpers of the Python runtime *)

RECURSIVE SplitFrom(_, _, _)
SplitFrom(s, sep, cur) ==
    IF s = <<>> THEN <<cur>>
    ELSE IF Head(s) = sep THEN <<cur>> \o SplitFrom(Tail(s), sep, <<>>)
    ELSE SplitFrom(Tail(s), sep, Append(cur, Head(s)))

\* s.split(sep) for a one-character separator: empty segments are kept
Split(s, sep) == SplitFrom(s, sep, <<>>)

RECURSIVE LStrip(_)
LStrip(s) ==
    IF s # <<>> /\ Head(s) \in Whitespace THEN LStrip(Tail(s)) ELSE s

RECURSIVE RStrip(_)
RStrip(s) ==
    IF s # <<>> /\ s[Len(s)] \in Whitespace
    THEN RStrip(SubSeq(s, 1, Len(s) - 1)) ELSE s

\* s.strip()
Strip(s) == RStrip(LStrip(s))

RECURSIVE Join(_, _)
\* sep.join(parts)
Join(parts, sep) ==
    IF parts = <<>> THEN <<>>
    ELSE IF Len(parts) = 1 THEN Head(parts)
    ELSE Head(parts) \o sep \o Join(Tail(parts), sep)

Digit(d) == <<"0", "1", "2", "3", "4", "5", "6", "7", "8", "9">>[d + 1]

RECURSIVE NatStr(_)
NatStr(n) == IF n < 10 THEN <<Digit(n)>> ELSE Append(NatStr(n \div 10), Digit(n % 10))

\* str(n) of an int
IntStr(n) == IF n < 0 THEN <<"-">> \o NatStr(0 - n) ELSE NatStr(n)

RECURSIVE ZeroPad(_, _)
\* '%0<w>d' of a natural number
ZeroPad(s, w) == IF Len(s) >= w THEN s ELSE ZeroPad(<<"0">> \o s, w)

-----------------------------------------------------------------------------
(* Row Builder: json_parser, lines 98-109 *)

\* Lines 99-101: the conditional expression binds weaker than '%', so the
\* newline clean-up and the quotes are both inside the "',' in name" branch;
\* the filter "if a" tests the raw segment, before a.strip().
TitleQuoted(raw) ==
    LET segs == SelectSeq(Split(raw, NL), LAMBDA a : a # <<>>)
        stripped == [i \in 1..Len(segs) |-> Strip(segs[i])]
    IN  <<QUOTE>> \o Join(stripped, <<SP>>) \o <<QUOTE>>

\* Faulty variant: quotes every title, comma or not
TitleAlwaysQuoted(raw) == TitleQuoted(raw)

TitleOf(raw) == IF COMMA \in Range(raw) THEN TitleQuoted(raw) ELSE raw

\* The host's local UTC offset in seconds (datetime.fromtimestamp is local time)
LocalUTCOffset == 0

\* datetime.fromtimestamp(epoch).strftime('%Y-%m-%d'): proleptic Gregorian
\* calendar date of the day number, as the C library computes it
DateStr(epoch) ==
    LET days == (epoch + LocalUTCOffset) \div 86400
        z    == days + 719468
        era  == z \div 146097
        doe  == z - era * 146097
        yoe  == (doe - doe \div 1460 + doe \div 36524 - doe \div 146096) \div 365
        doy  == doe - (365 * yoe + yoe \div 4 - yoe \div 100)
        mp   == (5 * doy + 2) \div 153
        d    == doy - (153 * mp + 2) \div 5 + 1
        m    == IF mp < 10 THEN mp + 3 ELSE mp - 9
        y    == yoe + era * 400 + (IF m <= 2 THEN 1 ELSE 0)
    IN  ZeroPad(NatStr(y), 4) \o <<"-">> \o ZeroPad(NatStr(m), 2)
          \o <<"-">> \o ZeroPad(NatStr(d), 2)

\* The value rating_handler returns when it executes a bare "return"
None == [some |-> FALSE]
Some(v) == [some |-> TRUE, val |-> v]

\* f'{rating10}'
RatingStr(r) == IF r.some THEN IntStr(r.val) ELSE <<"N", "o", "n", "e">>

\* Line 109: f'{title},{year},{rating10},{watched_date}'
RowOf(title, year, rating10, watched_date) ==
    title \o <<COMMA>> \o year \o <<COMMA>> \o RatingStr(rating10)
          \o <<COMMA>> \o watched_date

\* Faulty variant: appends without the membership test
AppendAlways(list, row) == Append(list, row)

\* Line 111: movies.append(row) if row not in movies else None
AppendIfNew(list, row) ==
    IF row \in Range(list) THEN list ELSE Append(list, row)

-----------------------------------------------------------------------------
(* csv.writer(data_file, quoting=QUOTE_NONE, quotechar=None, delimiter='\n') *)

Header == <<"T","i","t","l","e",",","Y","e","a","r",",",
            "R","a","t","i","n","g","1","0",",",
            "W","a","t","c","h","e","d","D","a","t","e">>

LineTerminator == <<CR, NL>>

\* Under QUOTE_NONE with no escapechar a field holding the delimiter or a
\* character of the line terminator cannot be written: csv.Error
NeedsEscape(fld) == Range(fld) \cap {NL, CR} # {}

\* writerow(fields): [ok |-> FALSE] stands for the csv.Error
WriteRow(fields) ==
    IF \/ \E i \in 1..Len(fields) : NeedsEscape(fields[i])
       \/ fields = << <<>> >>
    THEN [ok |-> FALSE, text |-> <<>>]
    ELSE [ok |-> TRUE, text |-> Join(fields, <<NL>>) \o LineTerminator]

\* The lines of a text (str.splitlines over '\n' and '\r\n')
RECURSIVE LinesFrom(_, _)
LinesFrom(s, cur) ==
    IF s = <<>> THEN (IF cur = <<>> THEN <<>> ELSE <<cur>>)
    ELSE IF Head(s) = NL THEN <<cur>> \o LinesFrom(Tail(s), <<>>)
    ELSE IF Head(s) = CR /\ Len(s) >= 2 /\ s[2] = NL
         THEN <<cur>> \o LinesFrom(Tail(Tail(s)), <<>>)
    ELSE LinesFrom(Tail(s), Append(cur, Head(s)))

Lines(text) == LinesFrom(text, <<>>)

-----------------------------------------------------------------------------
(* The remote API: what the server may answer.  Every JSON body is the        *)
(* Tautulli envelope {"response": {...}}, one top-level key, so each          *)
(* "for _ in json_data" (lines 57, 69, 88) runs its body once.  The count     *)
(* the server reports and the length of the list it then sends are            *)
(* independent: nothing in the program ties one to the other.                 *)

USER == "user"
TOKEN == "token"

RatingKeys == {"k1", "k2"}
Titles == { <<"a">>, <<"b", COMMA>>, <<"c", NL>> }
Years == {1999}
WatchedStatuses == {0, 1}
Dates == {0, 86400}
Ratings == {7}

\* One entry of response.data.data of get_history
HistoryRecords ==
    [rating_key : RatingKeys, title : Titles, year : Years,
     watched_status : WatchedStatuses, date : Dates]

Datasets == UNION {[1..n -> HistoryRecords] : n \in 0..MaxLen}

\* requests.get raised exceptions.ConnectionError
ConnectionError == [kind |-> "ConnectionError"]

\* get_history without length: response.data with or without recordsFiltered
CountReplies ==
    {ConnectionError}
      \cup {[kind |-> "json", hasRecordsFiltered |-> FALSE]}
      \cup {[kind |-> "json", hasRecordsFiltered |-> TRUE, recordsFiltered |-> n] :
              n \in 0..MaxCount}

\* get_history with length: response.data.data
HistoryReplies ==
    {ConnectionError} \cup {[kind |-> "json", data |-> ds] : ds \in Datasets}

\* get_metadata: response.data empty, or holding user_rating
MetadataReplies ==
    {ConnectionError}
      \cup {[kind |-> "json", empty |-> TRUE]}
      \cup {[kind |-> "json", empty |-> FALSE, user_rating |-> r] : r \in Ratings}

\* What a reply was, for the history of the run
ReplyTag(reply) ==
    IF reply.kind = "ConnectionError" THEN "ConnectionError"
    ELSE IF "hasRecordsFiltered" \in DOMAIN reply
         THEN (IF reply.hasRecordsFiltered THEN "count" ELSE "no_recordsFiltered")
    ELSE IF "empty" \in DOMAIN reply
         THEN (IF reply.empty THEN "empty" ELSE "rated")
    ELSE "history"

-----------------------------------------------------------------------------
(* The handlers, as functions of the server's answer *)

\* Faulty variant: a connection failure is swallowed and an empty body returned
api_handler_swallow(reply) ==
    IF reply.kind = "ConnectionError"
    THEN [exit |-> FALSE,
          json |-> [kind |-> "json", hasRecordsFiltered |-> FALSE,
                    empty |-> TRUE, data |-> <<>>]]
    ELSE [exit |-> FALSE, json |-> reply]

\* Lines 44-51: the parsed body, or exit('... Base URL invalid ...')
api_handler(reply) ==
    IF reply.kind = "ConnectionError"
    THEN [exit |-> TRUE, msg |-> "Base URL invalid"]
    ELSE [exit |-> FALSE, json |-> reply]

\* Faulty variant: an empty payload is reported as the rating 0
rating_handler_zero(reply) ==
    LET r == api_handler(reply)
    IN  IF r.exit THEN r
        ELSE IF r.json.empty THEN [exit |-> FALSE, value |-> Some(0)]
        ELSE [exit |-> FALSE, value |-> Some(r.json.user_rating)]

\* Lines 55-63
rating_handler(reply) ==
    LET r == api_handler(reply)
    IN  IF r.exit THEN r
        ELSE IF r.json.empty THEN [exit |-> FALSE, value |-> None]
        ELSE [exit |-> FALSE, value |-> Some(r.json.user_rating)]

\* Faulty variant: a body without recordsFiltered counts as zero records
get_length_zero(reply) ==
    LET r == api_handler(reply)
    IN  IF r.exit THEN r
        ELSE IF ~r.json.hasRecordsFiltered THEN [exit |-> FALSE, value |-> 0]
        ELSE [exit |-> FALSE, value |-> r.json.recordsFiltered]

\* Lines 67-74
get_length(reply) ==
    LET r == api_handler(reply)
    IN  IF r.exit THEN r
        ELSE IF ~r.json.hasRecordsFiltered
             THEN [exit |-> TRUE, msg |-> "API key invalid"]
        ELSE [exit |-> FALSE, value |-> r.json.recordsFiltered]

\* params of the two get_history calls (lines 68 and 83) and of get_metadata
\* (line 56), each with the apikey api_handler adds (line 47)
CountParams ==
    [cmd |-> "get_history", media_type |-> "movie", search |-> USER,
     apikey |-> TOKEN]

FetchParams(n) ==
    [cmd |-> "get_history", media_type |-> "movie", search |-> USER,
     length |-> n, apikey |-> TOKEN]

MetadataParams(key) ==
    [cmd |-> "get_metadata", rating_key |-> key, apikey |-> TOKEN]

\* Line 92: while count <= total_count
WhileGuard(c, n) == c <= n

\* Line 116: if count == total_count
ReturnTest(c, n) == c = n

\* Line 96: if watched_status == 1
IsWatched(rec) == rec.watched_status = 1

-----------------------------------------------------------------------------
(* The run *)

Init ==
    /\ pc = "get_length"
    /\ exitMsg = ""
    /\ total_count = 0
    /\ dataset = <<>>
    /\ count = 0
    /\ movies = <<>>
    /\ file = <<>>
    /\ fileOpened = FALSE
    /\ calls = <<>>
    /\ replies = <<>>
    /\ reads = <<>>
    /\ built = <<>>
    /\ failed = FALSE
    /\ loopReturned = FALSE
    /\ name = <<>>
    /\ rendered = <<>>

\* exit(msg): SystemExit is caught by no handler of the program
Exit(msg) ==
    /\ pc' = "fatal"
    /\ exitMsg' = msg
    /\ failed' = TRUE

\* Line 81: total_count = get_length()
GetLength ==
    /\ pc = "get_length"
    /\ \E reply \in CountReplies :
         LET res == get_length(reply)
         IN  /\ calls' = Append(calls, CountParams)
             /\ replies' = Append(replies, ReplyTag(reply))
             /\ IF res.exit
                THEN Exit(res.msg) /\ UNCHANGED total_count
                ELSE /\ total_count' = res.value
                     /\ pc' = "fetch_all"
                     /\ UNCHANGED <<exitMsg, failed>>
    /\ UNCHANGED <<dataset, count, movies, file, fileOpened, reads, built,
                   loopReturned, name, rendered>>

\* Lines 83-90: the fetch-all call, then count = 0
FetchAll ==
    /\ pc = "fetch_all"
    /\ \E reply \in HistoryReplies :
         LET res == api_handler(reply)
         IN  /\ calls' = Append(calls, FetchParams(total_count))
             /\ replies' = Append(replies, ReplyTag(reply))
             /\ IF res.exit
                THEN Exit(res.msg) /\ UNCHANGED dataset
                ELSE /\ dataset' = res.json.data
                     /\ pc' = "loop"
                     /\ UNCHANGED <<exitMsg, failed>>
    /\ count' = 0
    /\ UNCHANGED <<total_count, movies, file, fileOpened, reads, built,
                   loopReturned, name, rendered>>

\* Lines 114-119: count += 1, then return (movies, len(movies)) or go on
Advance ==
    /\ count' = count + 1
    /\ IF ReturnTest(count + 1, total_count)
       THEN pc' = "open" /\ loopReturned' = TRUE
       ELSE pc' = "loop" /\ UNCHANGED loopReturned

\* Lines 94, 120-121: indexing past the end of the fetched list
LoopIndexError ==
    /\ pc = "loop"
    /\ WhileGuard(count, total_count)
    /\ count >= Len(dataset)
    /\ reads' = Append(reads, count)
    /\ Exit("Index Error")
    /\ UNCHANGED <<total_count, dataset, count, movies, file, fileOpened,
                   calls, replies, built, loopReturned, name, rendered>>

\* Lines 94-96, 114-119: one pass over a record that is not watched
LoopUnwatched ==
    /\ pc = "loop"
    /\ WhileGuard(count, total_count)
    /\ count < Len(dataset)
    /\ ~IsWatched(dataset[count + 1])
    /\ reads' = Append(reads, count)
    /\ Advance
    /\ UNCHANGED <<exitMsg, total_count, dataset, movies, file, fileOpened,
                   calls, replies, built, failed, name, rendered>>

\* Lines 94-119: one pass over a watched record, rating lookup included
LoopWatched ==
    /\ pc = "loop"
    /\ WhileGuard(count, total_count)
    /\ count < Len(dataset)
    /\ IsWatched(dataset[count + 1])
    /\ reads' = Append(reads, count)
    /\ \E reply \in MetadataReplies :
         LET rec == dataset[count + 1]
             title == TitleOf(rec.title)
             year == IntStr(rec.year)
             res == rating_handler(reply)
         IN  /\ calls' = Append(calls, MetadataParams(rec.rating_key))
             /\ replies' = Append(replies, ReplyTag(reply))
             /\ IF res.exit
                THEN /\ Exit(res.msg)
                     /\ UNCHANGED <<count, movies, built, loopReturned>>
                ELSE LET row == RowOf(title, year, res.value, DateStr(rec.date))
                     IN  /\ movies' = AppendIfNew(movies, row)
                         /\ built' = Append(built,
                               [index |-> count, key |-> rec.rating_key,
                                row |-> row, title |-> title,
                                rating |-> RatingStr(res.value)])
                         /\ Advance
                         /\ UNCHANGED <<exitMsg, failed>>
    /\ UNCHANGED <<total_count, dataset, file, fileOpened, name, rendered>>

\* Lines 92, 128, 137-138: the while condition fails before any return, so
\* json_parser returns None and the unpacking in to_csv raises TypeError
LoopFallThrough ==
    /\ pc = "loop"
    /\ ~WhileGuard(count, total_count)
    /\ Exit("Invalid user")
    /\ UNCHANGED <<total_count, dataset, count, movies, file, fileOpened,
                   calls, replies, reads, built, loopReturned, name, rendered>>

\* Line 129: open(FILE_NAME, 'w') truncates the file
OpenFile ==
    /\ pc = "open"
    /\ fileOpened' = TRUE
    /\ file' = <<>>
    /\ pc' = "write"
    /\ UNCHANGED <<exitMsg, total_count, dataset, count, movies, calls,
                   replies, reads, built, failed, loopReturned, name, rendered>>

\* Lines 131-136: the two writerow calls and the close of the file; a
\* csv.Error is caught by no handler and ends the run with a traceback
WriteCsv ==
    /\ pc = "write"
    /\ LET head == WriteRow(<<Header>>)
           body == WriteRow(movies)
       IN  IF body.ok
           THEN /\ file' = head.text \o body.text
                /\ pc' = "done"
                /\ UNCHANGED failed
           ELSE /\ file' = head.text
                /\ pc' = "crashed"
                /\ failed' = TRUE
    /\ UNCHANGED <<exitMsg, total_count, dataset, count, movies, fileOpened,
                   calls, replies, reads, built, loopReturned, name, rendered>>

\* Lines 139-140: KeyboardInterrupt anywhere inside to_csv
Interrupt ==
    /\ pc \in {"get_length", "fetch_all", "loop", "open", "write"}
    /\ Exit("halted")
    /\ \E flushed \in {<<>>, WriteRow(<<Header>>).text} :
         file' = IF pc = "write" THEN flushed ELSE file
    /\ UNCHANGED <<total_count, dataset, count, movies, fileOpened, calls,
                   replies, reads, built, loopReturned, name, rendered>>

Next ==
    \/ GetLength
    \/ FetchAll
    \/ LoopIndexError
    \/ LoopUnwatched
    \/ LoopWatched
    \/ LoopFallThrough
    \/ OpenFile
    \/ WriteCsv
    \/ Interrupt

Spec == Init /\ [][Next]_vars

-----------------------------------------------------------------------------
(* The title rendering on its own, over every short title *)

Alphabet == {"a", COMMA, SP, NL, QUOTE}

TitleStrings == UNION {[1..n -> Alphabet] : n \in 0..MaxTitleLen}

InitTitle ==
    /\ pc = "title_in"
    /\ name \in TitleStrings
    /\ rendered = <<>>
    /\ exitMsg = ""
    /\ total_count = 0
    /\ dataset = <<>>
    /\ count = 0
    /\ movies = <<>>
    /\ file = <<>>
    /\ fileOpened = FALSE
    /\ calls = <<>>
    /\ replies = <<>>
    /\ reads = <<>>
    /\ built = <<>>
    /\ failed = FALSE
    /\ loopReturned = FALSE

\* Lines 98-101
RenderTitle ==
    /\ pc = "title_in"
    /\ rendered' = TitleOf(name)
    /\ pc' = "title_out"
    /\ UNCHANGED <<exitMsg, total_count, dataset, count, movies, file,
                   fileOpened, calls, replies, reads, built, failed,
                   loopReturned, name>>

NextTitle == RenderTitle

SpecTitle == InitTitle /\ [][NextTitle]_vars

-----------------------------------------------------------------------------
(* Properties *)

Last(s) == s[Len(s)]

NoDuplicates(s) == \A i, j \in 1..Len(s) : i # j => s[i] # s[j]

\* First position of x in s
FirstPos(s, x) == CHOOSE k \in 1..Len(s) : s[k] = x /\ \A m \in 1..(k - 1) : s[m] # x

\* The values a rating lookup can yield
RatingValues == {None} \cup {Some(r) : r \in Ratings}

\* The texts a history record can render to, over every rating it may have
RowsOfRecord(rec) ==
    {RowOf(TitleOf(rec.title), IntStr(rec.year), r, DateStr(rec.date)) :
       r \in RatingValues}

WatchedIndices == {i \in 1..Len(dataset) : IsWatched(dataset[i])}

\* C1: in a run that ends normally the file is the header line followed by
\* exactly one line per distinct rendered row of ALL watched records of the
\* fetched dataset, no row twice (so lines = distinct watched rows + 1).
C1_FileIsHeaderPlusAllWatchedRows ==
    pc = "done" =>
      LET lines == Lines(file)
          data == Tail(lines)
          builtRows == {built[k].row : k \in 1..Len(built)}
      IN  /\ lines # <<>>
          /\ Head(lines) = Header
          /\ NoDuplicates(data)
          /\ Range(data) = builtRows
          /\ \A i \in WatchedIndices :
               Range(data) \cap RowsOfRecord(dataset[i]) # {}
          /\ Len(lines) = Cardinality(builtRows) + 1

C3_OneCandidatePerWatchedRecord ==
    loopReturned =>
      \A i \in 1..Len(dataset) :
        Cardinality({k \in 1..Len(built) : built[k].index = i - 1})
          = IF IsWatched(dataset[i]) THEN 1 ELSE 0

\* The clean-up the title rule describes: split on newlines, strip every
\* segment, drop the segments that are empty after stripping, join with spaces
NormalizedTitle(raw) ==
    LET segs == Split(raw, NL)
        stripped == [i \in 1..Len(segs) |-> Strip(segs[i])]
    IN  Join(SelectSeq(stripped, LAMBDA a : a # <<>>), <<SP>>)

HasComma(t) == COMMA \in Range(t)

BeginsAndEndsWithQuote(t) == t # <<>> /\ Head(t) = QUOTE /\ Last(t) = QUOTE

QuoteCount(t) == Cardinality({i \in 1..Len(t) : t[i] = QUOTE})

\* The rendered title without the quotes put around a comma-bearing title
Unquoted(raw, t) ==
    IF HasComma(raw) /\ Len(t) >= 2 /\ BeginsAndEndsWithQuote(t)
    THEN SubSeq(t, 2, Len(t) - 1) ELSE t

\* C4: for every title, with or without a comma, the rendered title (quotes
\* aside) is the newline-normalized title, and it holds no newline.
C4_TitleIsNormalized ==
    pc = "title_out" =>
      /\ Unquoted(name, rendered) = NormalizedTitle(name)
      /\ NL \notin Range(rendered)

C6_EmptyPayloadIsNoError ==
    [][replies' = Append(replies, "empty") =>
         /\ Len(built') = Len(built) + 1
         /\ LET b == Last(built')
                rec == dataset[count + 1]
            IN  /\ b.index = count
                /\ b.rating = <<"N", "o", "n", "e">>
                /\ b.row = TitleOf(rec.title) \o <<COMMA>> \o IntStr(rec.year)
                             \o <<COMMA, "N", "o", "n", "e", COMMA>>
                             \o DateStr(rec.date)
                /\ b.row \in Range(movies')
         /\ count' = count + 1
         /\ pc' \in {"loop", "open"}
         /\ ~failed' /\ exitMsg' = ""]_vars

\* C6 witness: a record was processed after one whose lookup came back empty.
C6_Witness ==
    /\ Len(replies) >= 4
    /\ replies[3] = "empty"
    /\ Len(built) = 2
    /\ built[1].rating = <<"N", "o", "n", "e">>
    /\ ~failed

\* C7: when the answer to the count call lacks recordsFiltered the run is in
\* the 'API key invalid' fatal state, and neither the second get_history
\* call, nor a get_metadata call, nor a write to the file has happened.
C7_CredentialFailureBeforeFetch ==
    (replies # <<>> /\ replies[1] = "no_recordsFiltered") =>
      /\ pc = "fatal"
      /\ exitMsg = "API key invalid"
      /\ calls = <<CountParams>>
      /\ ~fileOpened
      /\ file = <<>>

\* C7 witness: the count call was answered without recordsFiltered.
C7_Witness == replies = <<"no_recordsFiltered">> /\ pc = "fatal"

\* The get_metadata calls owed to the watched records of a list, in feed order
RECURSIVE MetadataCallsFor(_)
MetadataCallsFor(ds) ==
    IF ds = <<>> THEN <<>>
    ELSE (IF IsWatched(Head(ds)) THEN <<MetadataParams(Head(ds).rating_key)>>
          ELSE <<>>) \o MetadataCallsFor(Tail(ds))

\* C8: in a run that ends normally the remote calls are exactly: get_history
\* without length, get_history with length = the count of call 1, then one
\* get_metadata per fetched record with watched status 1, in feed order, each
\* with that record's rating key; every call has returned before the next.
C8_CallTrace ==
    /\ Len(replies) = Len(calls)
    /\ pc = "done" =>
         calls = <<CountParams, FetchParams(total_count)>>
                   \o MetadataCallsFor(dataset)

ErrorReplies == {"ConnectionError", "no_recordsFiltered"}

Terminated == pc \in {"done", "fatal", "crashed"}

\* C10: with the list fetched and neither a connection failure nor an
\* interrupt, the run ends normally if and only if 1 <= N <= L, having read
\* exactly the indices 0..N-1; L < N (or N = L = 0) ends in 'Index Error'
\* after reading index L; N = 0 with L >= 1 ends in 'Invalid user' after
\* record 0; a zero count never leaves a header-only file.
C10_OutcomeByCountAndLength ==
    LET N == total_count
        L == Len(dataset)
    IN  (/\ Terminated
         /\ Len(replies) >= 2 /\ replies[2] = "history"
         /\ exitMsg \notin {"Base URL invalid", "halted"}) =>
          /\ pc = "done" <=> (1 <= N /\ N <= L)
          /\ pc = "done" => reads = [i \in 1..N |-> i - 1]
          /\ (L < N \/ (N = 0 /\ L = 0)) =>
               (pc = "fatal" /\ exitMsg = "Index Error" /\ Last(reads) = L)
          /\ (N = 0 /\ L >= 1) =>
               (pc = "fatal" /\ exitMsg = "Invalid user" /\ reads = <<0>>)
          /\ N = 0 => ~fileOpened

====
